---- MODULE Spec2Model ----
(***************************************************************************)
(* Model of load-generator-image/workload.py: the supervisor (main), one   *)
(* load cycle (_run_load) and its worker threads, with the Prometheus      *)
(* metrics they publish.  Time is an integer clock `now`; rational values  *)
(* (the pacing interval, the gauges) are pairs <<numerator, denominator>>. *)
(***************************************************************************)
EXTENDS Integers, Sequences, FiniteSets, TLC

\* ---------------------------------------------------------------- bounds
MaxIters == 2        \* supervisor iterations (or direct _run_load calls) per run
MaxRestarts == 1     \* backoff-and-restart rounds per run
MaxOverrun == 1      \* clock ticks allowed past the deadline of a cycle
MaxThreadSeconds == 2 \* concurrency * duration_seconds of a direct _run_load call

\* ------------------------------------------------------ program constants
GasLimit == 21000
CooldownSeconds == 5
BackoffSeconds == 10
NoAccountsSleepSeconds == 10
MegaGas == 1000000
RpcPerAttempt == 3
StatusSuccess == 1
DefaultPort == 8000

\* ------------------------------------------------------------ input sets
Workers == {0, 1}                \* thread slots of one cycle
TpsValues == {0, 1, 2}
ConcValues == {0, 1, 2}
DurationValues == 0 .. MaxThreadSeconds
EnvTpsValues == {0, 1}           \* values the environment takes under main
EnvConcValues == {0, 1}
EnvDurationValues == {0, 1}
PortValues == {DefaultPort, DefaultPort + 1}
NoField == -1                    \* a receipt key that is absent (or None)
StatusValues == {StatusSuccess, 0, NoField}
GasUsedValues == {GasLimit, NoField}
NoThread == -1                   \* the lock is free

VARIABLES
    env,            \* os.environ: TARGET_TPS, CONCURRENCY, DURATION_SECONDS, METRICS_PORT
    now,            \* the clock: time.time and time.perf_counter advance together
    entry,          \* "main" (python workload.py) or "direct" (_run_load called directly)
    mpc,            \* position of the main thread
    restarts,       \* depth of the main() recursion
    iters,          \* supervisor iterations / direct calls so far
    exitCode,       \* value main returned, or NoField while running
    boundPorts,     \* ports on which start_http_server has started a metrics server
    refreshers,     \* head-block refresher threads started
    cfg,            \* target_tps, concurrency, duration_seconds of this iteration
    interval,       \* _run_load: interval, <<num, den>>
    stop_at,        \* _run_load: stop_at
    start_time,     \* _run_load: start_time
    started,        \* _run_load: threads started so far
    total_sent, total_failed, total_gas_used, latencies,
    lock,           \* owner of threading.Lock, or NoThread
    wpc,            \* worker position
    wl,             \* worker locals: start, duration, gas_used, status, reg, wake;
                    \* last, took: when the previous attempt of the thread
                    \* started and the elapsed time its pacing measured
    gauges,         \* METRIC_TPS, METRIC_RPS, METRIC_MGAS, METRIC_FAILURE_RATE, METRIC_LATENCY
    hist,           \* LATENCY_HISTOGRAM: count and sum of observations
    rpcErrors,      \* RPC_ERROR_COUNTER
    obs             \* what a test harness observes of the current cycle

vars == <<env, now, entry, mpc, restarts, iters, exitCode, boundPorts, refreshers,
          cfg, interval, stop_at, start_time, started,
          total_sent, total_failed, total_gas_used, latencies, lock, wpc, wl,
          gauges, hist, rpcErrors, obs>>

mainVars == <<entry, mpc, restarts, iters, exitCode, boundPorts, refreshers, cfg>>
cycleVars == <<interval, stop_at, start_time, started>>
aggVars == <<total_sent, total_failed, total_gas_used, latencies>>
metricVars == <<gauges, hist, rpcErrors>>

\* The locals of a worker (start, duration, gas_used, status, the value read
\* by an augmented assignment, the wake-up time of a sleep) are kept only
\* while the code can still read them.
\* ------------------------------------------------------------- helpers
Zero == <<0, 1>>

RECURSIVE SumSeq(_)
SumSeq(s) == IF s = <<>> THEN 0 ELSE Head(s) + SumSeq(Tail(s))

EnvValues == [TARGET_TPS : EnvTpsValues, CONCURRENCY : EnvConcValues,
              DURATION_SECONDS : EnvDurationValues, METRICS_PORT : {DefaultPort}]

\* environment e with the load configuration taken from c
WithLoadConfig(e, c) ==
    [e EXCEPT !.TARGET_TPS = c.TARGET_TPS, !.CONCURRENCY = c.CONCURRENCY,
              !.DURATION_SECONDS = c.DURATION_SECONDS]

NoObs == [threads |-> 0, rpc |-> 0, attempts |-> 0, receipts |-> 0, bad |-> 0,
          raised |-> 0, gas |-> 0, latsum |-> 0]

NoLocals == [start |-> 0, duration |-> 0, gas_used |-> 0, status |-> 0,
             reg |-> 0, wake |-> 0, last |-> NoField, took |-> 0]

ZeroGauges == [tps |-> Zero, rps |-> Zero, mgas |-> Zero,
               failure_rate |-> Zero, avg_latency |-> Zero]

\* the environment of a direct caller; _run_load never reads it
DefaultEnv == [TARGET_TPS |-> 0, CONCURRENCY |-> 0, DURATION_SECONDS |-> 0,
               METRICS_PORT |-> DefaultPort]

Start(e, environ) ==
    /\ env = environ
    /\ now = 0
    /\ entry = e
    /\ mpc = IF entry = "main" THEN "construct" ELSE "direct"
    /\ restarts = 0
    /\ iters = 0
    /\ exitCode = NoField
    /\ boundPorts = {}
    /\ refreshers = 0
    /\ cfg = [target_tps |-> 0, concurrency |-> 0, duration_seconds |-> 0]
    /\ interval = Zero
    /\ stop_at = 0
    /\ start_time = 0
    /\ started = 0
    /\ total_sent = 0
    /\ total_failed = 0
    /\ total_gas_used = 0
    /\ latencies = <<>>
    /\ lock = NoThread
    /\ wpc = [w \in Workers |-> "none"]
    /\ wl = [w \in Workers |-> NoLocals]
    /\ gauges = ZeroGauges
    /\ hist = [count |-> 0, sum |-> 0]
    /\ rpcErrors = 0
    /\ obs = NoObs

\* python workload.py: main() is the entry point
Init == \E e \in EnvValues : Start("main", e)

\* _run_load is called by a caller other than main
InitDirect == Start("direct", DefaultEnv)

\* ------------------------------------------------------------ environment
\* os.environ is modified in-process (a test's monkeypatch); the program reads
\* it at the top of the supervisor loop only, so a change made at any moment
\* of an iteration is modelled while main sleeps before the next read.
SetEnv ==
    /\ mpc \in {"cooldown", "no_accounts"}
    /\ \E e \in EnvValues : WithLoadConfig(env, e) # env /\ env' = WithLoadConfig(env, e)
    /\ UNCHANGED <<now, mainVars, cycleVars, aggVars, lock, wpc, wl, metricVars, obs>>

\* os.environ is modified while the iteration that read it is still under way,
\* during the accounts query or while _run_load executes: all three variables
\* are given other values
SetEnvInCycle ==
    /\ mpc \in {"accounts", "rl_enter", "rl_threads", "rl_start", "rl_join", "rl_publish"}
    /\ \E e \in EnvValues :
          /\ e.TARGET_TPS # env.TARGET_TPS
          /\ e.CONCURRENCY # env.CONCURRENCY
          /\ e.DURATION_SECONDS # env.DURATION_SECONDS
          /\ env' = WithLoadConfig(env, e)
    /\ UNCHANGED <<now, mainVars, cycleVars, aggVars, lock, wpc, wl, metricVars, obs>>

\* METRICS_PORT is given another value while the handler of a top-level
\* failure sleeps
SetMetricsPort ==
    /\ mpc = "backoff"
    /\ \E p \in PortValues : p # env.METRICS_PORT /\ env' = [env EXCEPT !.METRICS_PORT = p]
    /\ UNCHANGED <<now, mainVars, cycleVars, aggVars, lock, wpc, wl, metricVars, obs>>

\* ------------------------------------------------------------------ main
RpcResults == {"ok", "web3", "other"}

Qualifies(c) == c.target_tps > 0 /\ c.concurrency > 0

\* where control goes when _run_load returns
ReturnPc == IF entry = "main" THEN "cooldown" ELSE "returned"

MainStep(next) ==
    /\ mpc' = next
    /\ UNCHANGED <<env, now, entry, restarts, iters, exitCode, boundPorts, refreshers, cfg,
                   cycleVars, aggVars, lock, wpc, wl, metricVars, obs>>

MainReturn(code) ==
    /\ mpc' = "exit"
    /\ exitCode' = code
    /\ UNCHANGED <<env, now, entry, restarts, iters, boundPorts, refreshers, cfg,
                   cycleVars, aggVars, lock, wpc, wl, metricVars, obs>>

MainConstruct ==
    /\ mpc = "construct"
    /\ \E ok \in BOOLEAN : IF ok THEN MainStep("is_connected") ELSE MainReturn(1)

MainIsConnected ==
    /\ mpc = "is_connected"
    /\ \E connected \in BOOLEAN : IF connected THEN MainStep("chain_id") ELSE MainReturn(1)

MainChainId ==
    /\ mpc = "chain_id"
    /\ \E r \in RpcResults : MainStep(IF r = "ok" THEN "block_number" ELSE "backoff")

MainBlockNumber ==
    /\ mpc = "block_number"
    /\ \E r \in RpcResults : MainStep(IF r = "ok" THEN "start_server" ELSE "backoff")

\* start_http_server binds METRICS_PORT; a port this process already listens
\* on makes the bind raise OSError, which the outer handler catches.
MainStartServer ==
    /\ mpc = "start_server"
    /\ mpc' = IF env.METRICS_PORT \in boundPorts THEN "backoff" ELSE "start_refresher"
    /\ boundPorts' = boundPorts \cup {env.METRICS_PORT}
    /\ UNCHANGED <<env, now, entry, restarts, iters, exitCode, refreshers, cfg,
                   cycleVars, aggVars, lock, wpc, wl, metricVars, obs>>

MainStartRefresher ==
    /\ mpc = "start_refresher"
    /\ mpc' = "get_balance"
    /\ refreshers' = refreshers + 1
    /\ UNCHANGED <<env, now, entry, restarts, iters, exitCode, boundPorts, cfg,
                   cycleVars, aggVars, lock, wpc, wl, metricVars, obs>>

\* only Web3Exception is caught next to the balance query
MainGetBalance ==
    /\ mpc = "get_balance"
    /\ \E r \in RpcResults : MainStep(IF r = "other" THEN "backoff" ELSE "read_cfg")

MainReadConfig ==
    /\ mpc = "read_cfg"
    /\ iters < MaxIters
    /\ iters' = iters + 1
    /\ cfg' = [target_tps |-> env.TARGET_TPS, concurrency |-> env.CONCURRENCY,
               duration_seconds |-> env.DURATION_SECONDS]
    /\ mpc' = IF Qualifies(cfg') THEN "accounts" ELSE "cooldown"
    /\ UNCHANGED <<env, now, entry, restarts, exitCode, boundPorts, refreshers,
                   cycleVars, aggVars, lock, wpc, wl, metricVars, obs>>

MainAccounts ==
    /\ mpc = "accounts"
    /\ \E r \in RpcResults \cup {"empty"} :
          MainStep(CASE r = "ok" -> "rl_enter"
                     [] r = "empty" -> "no_accounts"
                     [] OTHER -> "backoff")

MainSleep(seconds, next) ==
    /\ now' = now + seconds
    /\ mpc' = next
    /\ UNCHANGED <<env, entry, restarts, iters, exitCode, boundPorts, refreshers, cfg,
                   cycleVars, aggVars, lock, wpc, wl, metricVars, obs>>

\* (variant: an empty account list is treated as a top-level failure)
MainNoAccountsRaises ==
    /\ mpc = "no_accounts"
    /\ MainStep("backoff")

\* if not accounts: log, time.sleep(10), continue
MainNoAccounts ==
    /\ mpc = "no_accounts"
    /\ MainSleep(NoAccountsSleepSeconds, "read_cfg")

\* (variant: the next iteration starts without the pause)
MainCooldownSkipped ==
    /\ mpc = "cooldown"
    /\ MainStep("read_cfg")

\* time.sleep(5) at the bottom of the loop body
MainCooldown ==
    /\ mpc = "cooldown"
    /\ MainSleep(CooldownSeconds, "read_cfg")

\* except ...: log, sleep, return main()
MainBackoff ==
    /\ mpc = "backoff"
    /\ restarts < MaxRestarts
    /\ restarts' = restarts + 1
    /\ now' = now + BackoffSeconds
    /\ mpc' = "construct"
    /\ UNCHANGED <<env, entry, iters, exitCode, boundPorts, refreshers, cfg,
                   cycleVars, aggVars, lock, wpc, wl, metricVars, obs>>

\* a caller other than main (a test) calls _run_load with any arguments
DirectCall ==
    /\ mpc = "direct"
    /\ iters' = iters + 1
    /\ \E t \in TpsValues, c \in ConcValues, d \in DurationValues :
          /\ c * d <= MaxThreadSeconds
          /\ cfg' = [target_tps |-> t, concurrency |-> c, duration_seconds |-> d]
    /\ mpc' = "rl_enter"
    /\ UNCHANGED <<env, now, entry, restarts, exitCode, boundPorts, refreshers,
                   cycleVars, aggVars, lock, wpc, wl, metricVars, obs>>

\* ------------------------------------------------------------- _run_load
\* (variant: the cycle is skipped only when both arguments are <= 0)
IdleArgsBoth(c) == c.target_tps <= 0 /\ c.concurrency <= 0

\* if target_tps <= 0 or concurrency <= 0: return
IdleArgs(c) == c.target_tps <= 0 \/ c.concurrency <= 0

\* interval = 1.0 / per_worker_tps, with per_worker_tps = target_tps / concurrency
\* clamped to 1.0 when it is <= 0
Interval(c) ==
    IF c.target_tps * c.concurrency <= 0 THEN <<1, 1>>
    ELSE IF c.concurrency > 0 THEN <<c.concurrency, c.target_tps>>
    ELSE <<0 - c.concurrency, 0 - c.target_tps>>

\* (variant: the duration is read from the environment again)
DeadlineFromEnv(t, c) == t + env.DURATION_SECONDS

\* stop_at = time.time() + duration_seconds
Deadline(t, c) == t + c.duration_seconds

\* the counters and the list a cycle starts from
FreshCount == 0
FreshLatencies == <<>>

RunLoadEnter ==
    /\ mpc = "rl_enter"
    /\ IF IdleArgs(cfg)
       THEN /\ mpc' = ReturnPc
            /\ UNCHANGED <<cycleVars, aggVars, lock, wpc, wl, obs>>
       ELSE IF cfg.concurrency = 0
       THEN \* float division by zero propagates to the caller
            /\ mpc' = IF entry = "main" THEN "backoff" ELSE "returned"
            /\ UNCHANGED <<cycleVars, aggVars, lock, wpc, wl, obs>>
       ELSE /\ mpc' = "rl_threads"
            /\ interval' = Interval(cfg)
            /\ stop_at' = Deadline(now, cfg)
            /\ total_sent' = FreshCount
            /\ total_failed' = FreshCount
            /\ total_gas_used' = FreshCount
            /\ latencies' = FreshLatencies
            /\ lock' = NoThread
            /\ wpc' = [w \in Workers |-> "none"]
            /\ wl' = [w \in Workers |-> NoLocals]
            /\ obs' = NoObs
            /\ UNCHANGED <<start_time, started>>
    /\ UNCHANGED <<env, now, entry, restarts, iters, exitCode, boundPorts, refreshers, cfg,
                   metricVars>>

RunLoadCreateThreads ==
    /\ mpc = "rl_threads"
    /\ wpc' = [w \in Workers |-> IF w < cfg.concurrency THEN "created" ELSE "none"]
    /\ obs' = [obs EXCEPT !.threads = Cardinality({w \in Workers : w < cfg.concurrency})]
    /\ start_time' = now
    /\ started' = 0
    /\ mpc' = IF cfg.concurrency > 0 THEN "rl_start" ELSE "rl_join"
    /\ UNCHANGED <<env, now, entry, restarts, iters, exitCode, boundPorts, refreshers, cfg,
                   interval, stop_at, aggVars, lock, wl, metricVars>>

RunLoadStartThread ==
    /\ mpc = "rl_start"
    /\ wpc' = [wpc EXCEPT ![started] = "check"]
    /\ started' = started + 1
    /\ mpc' = IF started + 1 < cfg.concurrency THEN "rl_start" ELSE "rl_join"
    /\ UNCHANGED <<env, now, entry, restarts, iters, exitCode, boundPorts, refreshers, cfg,
                   interval, stop_at, start_time, aggVars, lock, wl, metricVars, obs>>

\* (variant: the controller waits for a thread that never reports its end)
JoinedNever(w) == FALSE

\* (variant: the controller does not wait for the workers)
JoinedAlways(w) == TRUE

\* t.join() returns once thread t has terminated
Joined(w) == wpc[w] \in {"none", "done"}

RunLoadJoin ==
    /\ mpc = "rl_join"
    /\ \A w \in Workers : Joined(w)
    /\ MainStep("rl_publish")

Ratio(n, d) == IF d > 0 THEN <<n, d>> ELSE Zero

Tps(tx, d) == Ratio(tx, d)
\* (variant: two RPC calls are counted per attempt)
RpsTwoCalls(tx, d) == Ratio(tx * 2, d)

\* total_rpc_calls = total_tx * 3, over the duration
Rps(tx, d) == Ratio(tx * RpcPerAttempt, d)
MgasPerSec(gas, d) == Ratio(gas, MegaGas * d)
\* (variant: the rate is taken over the sent count instead of the total)
FailureRateOverSent(failed, tx) == Ratio(failed, tx - failed)

FailureRate(failed, tx) == Ratio(failed, tx)
AvgLatency(lat) == Ratio(SumSeq(lat), Len(lat))

RunLoadPublish ==
    /\ mpc = "rl_publish"
    /\ LET duration == now - start_time
           total_tx == total_sent + total_failed
       IN  gauges' = [tps |-> Tps(total_tx, duration),
                      rps |-> Rps(total_tx, duration),
                      mgas |-> MgasPerSec(total_gas_used, duration),
                      failure_rate |-> FailureRate(total_failed, total_tx),
                      avg_latency |-> AvgLatency(latencies)]
    /\ mpc' = ReturnPc
    \* the frame of _run_load is gone once it returns
    /\ interval' = Zero
    /\ stop_at' = 0
    /\ start_time' = 0
    /\ started' = 0
    /\ total_sent' = 0
    /\ total_failed' = 0
    /\ total_gas_used' = 0
    /\ latencies' = <<>>
    \* the thread objects of terminated workers go with the frame
    /\ wpc' = [w \in Workers |-> IF wpc[w] = "done" THEN "none" ELSE wpc[w]]
    /\ obs' = NoObs
    /\ UNCHANGED <<env, now, entry, restarts, iters, exitCode, boundPorts, refreshers, cfg,
                   lock, wl, hist, rpcErrors>>

\* ---------------------------------------------------------------- worker
WorkerStep(w, next) == wpc' = [wpc EXCEPT ![w] = next]

\* (variant: the deadline test written with <=)
AtOrBeforeDeadline(t, deadline) == t <= deadline

\* while time.time() < stop_at
BeforeDeadline(t, deadline) == t < deadline

\* (variant: the counters are updated without taking the lock)
CanAcquireAlways(w) == TRUE

\* with lock: blocks until the lock is free
CanAcquire(w) == lock = NoThread

WCheck(w) ==
    /\ wpc[w] = "check"
    /\ IF BeforeDeadline(now, stop_at)
       THEN /\ WorkerStep(w, "gas_price")
            /\ wl' = [wl EXCEPT ![w].start = now]
            /\ obs' = [obs EXCEPT !.attempts = @ + 1]
       ELSE /\ WorkerStep(w, "done")
            /\ wl' = [wl EXCEPT ![w] = NoLocals]
            /\ UNCHANGED obs
    /\ UNCHANGED <<env, now, mainVars, cycleVars, aggVars, lock, metricVars>>

\* (variant: the exception is swallowed without being counted)
ExceptClauseSkipped == "pace"

\* except Exception: where an exception raised inside the try block lands
ExceptClause == "exc_lock"

\* an RPC call of the attempt that returns, or raises into the except clause
WCall(w, at, next) ==
    /\ wpc[w] = at
    /\ \E ok \in BOOLEAN :
          /\ WorkerStep(w, IF ok THEN next ELSE ExceptClause)
          /\ obs' = [obs EXCEPT !.rpc = @ + 1,
                                !.raised = IF ok THEN @ ELSE @ + 1]
    /\ UNCHANGED <<env, now, mainVars, cycleVars, aggVars, lock, wl, metricVars>>

WGasPrice(w) == WCall(w, "gas_price", "send")

WSend(w) == WCall(w, "send", "wait")

\* receipt.get("gasUsed", 0) or 0
GasUsedOf(g) == IF g = NoField THEN 0 ELSE g

\* (variant: a receipt without a status counts as a success)
StatusOfDefaultSuccess(st) == IF st = NoField THEN StatusSuccess ELSE st

\* receipt.get("status", 0)
StatusOf(st) == IF st = NoField THEN 0 ELSE st

WWaitRaise(w) ==
    /\ wpc[w] = "wait"
    /\ WorkerStep(w, ExceptClause)
    /\ obs' = [obs EXCEPT !.rpc = @ + 1, !.raised = @ + 1]
    /\ UNCHANGED <<env, now, mainVars, cycleVars, aggVars, lock, wl, metricVars>>

WWaitReceipt(w) ==
    /\ wpc[w] = "wait"
    /\ \E st \in StatusValues, g \in GasUsedValues :
          LET d == now - wl[w].start
          IN  /\ wl' = [wl EXCEPT ![w].duration = d,
                                  ![w].gas_used = GasUsedOf(g),
                                  ![w].status = StatusOf(st)]
              /\ hist' = [count |-> hist.count + 1, sum |-> hist.sum + d]
              /\ obs' = [obs EXCEPT !.rpc = @ + 1,
                                    !.receipts = @ + 1,
                                    !.bad = IF st = StatusSuccess THEN @ ELSE @ + 1,
                                    !.gas = @ + (IF g = NoField THEN 0 ELSE g),
                                    !.latsum = @ + d]
    /\ WorkerStep(w, "lock")
    /\ UNCHANGED <<env, now, mainVars, cycleVars, aggVars, lock, gauges, rpcErrors>>

WAcquire(w) ==
    /\ wpc[w] \in {"lock", "exc_lock"}
    /\ CanAcquire(w)
    /\ lock' = w
    /\ WorkerStep(w, IF wpc[w] = "lock" THEN "sent_load" ELSE "exc_load")
    /\ UNCHANGED <<env, now, mainVars, cycleVars, aggVars, wl, metricVars, obs>>

\* x += 1 reads x, adds, and writes x back
WLoad(w, at, value, next) ==
    /\ wpc[w] = at
    /\ wl' = [wl EXCEPT ![w].reg = value]
    /\ WorkerStep(w, next)
    /\ UNCHANGED <<env, now, mainVars, cycleVars, aggVars, lock, metricVars, obs>>

WSentLoad(w) == WLoad(w, "sent_load", total_sent, "sent_store")

WSentStore(w) ==
    /\ wpc[w] = "sent_store"
    /\ total_sent' = wl[w].reg + 1
    /\ wl' = [wl EXCEPT ![w].reg = 0]
    /\ WorkerStep(w, IF wl[w].status # StatusSuccess THEN "failed_load" ELSE "gas_load")
    /\ UNCHANGED <<env, now, mainVars, cycleVars, total_failed, total_gas_used, latencies,
                   lock, metricVars, obs>>

WFailedLoad(w) == WLoad(w, "failed_load", total_failed, "failed_store")

WFailedStore(w) ==
    /\ wpc[w] = "failed_store"
    /\ total_failed' = wl[w].reg + 1
    /\ wl' = [wl EXCEPT ![w].reg = 0]
    /\ WorkerStep(w, "gas_load")
    /\ UNCHANGED <<env, now, mainVars, cycleVars, total_sent, total_gas_used, latencies,
                   lock, metricVars, obs>>

WGasLoad(w) == WLoad(w, "gas_load", total_gas_used, "gas_store")

WGasStore(w) ==
    /\ wpc[w] = "gas_store"
    /\ total_gas_used' = wl[w].reg + wl[w].gas_used
    /\ wl' = [wl EXCEPT ![w].reg = 0]
    /\ WorkerStep(w, "append")
    /\ UNCHANGED <<env, now, mainVars, cycleVars, total_sent, total_failed, latencies,
                   lock, metricVars, obs>>

\* latencies.append(duration), and the with block releases the lock
WAppend(w) ==
    /\ wpc[w] = "append"
    /\ latencies' = Append(latencies, wl[w].duration)
    /\ lock' = IF lock = w THEN NoThread ELSE lock
    /\ wl' = [wl EXCEPT ![w].duration = 0, ![w].gas_used = 0, ![w].status = 0]
    /\ WorkerStep(w, "pace")
    /\ UNCHANGED <<env, now, mainVars, cycleVars, total_sent, total_failed, total_gas_used,
                   metricVars, obs>>

WExcLoad(w) == WLoad(w, "exc_load", total_failed, "exc_store")

WExcStore(w) ==
    /\ wpc[w] = "exc_store"
    /\ total_failed' = wl[w].reg + 1
    /\ lock' = IF lock = w THEN NoThread ELSE lock
    /\ wl' = [wl EXCEPT ![w].reg = 0]
    /\ WorkerStep(w, "exc_inc")
    /\ UNCHANGED <<env, now, mainVars, cycleVars, total_sent, total_gas_used, latencies,
                   metricVars, obs>>

WExcInc(w) ==
    /\ wpc[w] = "exc_inc"
    /\ rpcErrors' = rpcErrors + 1
    /\ WorkerStep(w, "pace")
    /\ UNCHANGED <<env, now, mainVars, cycleVars, aggVars, lock, wl, gauges, hist, obs>>

\* (variant: the worker never sleeps between attempts)
SleepForNone(iv, elapsed) == 0

\* sleep_for = interval - elapsed, scaled by the interval's denominator
SleepFor(iv, elapsed) == iv[1] - elapsed * iv[2]

WPace(w) ==
    /\ wpc[w] = "pace"
    /\ LET sleep_for == SleepFor(interval, now - wl[w].start)
       IN  IF sleep_for > 0
           THEN /\ wl' = [wl EXCEPT ![w].wake = now * interval[2] + sleep_for,
                                     ![w].start = 0,
                                     ![w].last = wl[w].start,
                                     ![w].took = now - wl[w].start]
                /\ WorkerStep(w, "sleeping")
           ELSE /\ WorkerStep(w, "check")
                /\ wl' = [wl EXCEPT ![w].start = 0, ![w].last = wl[w].start,
                                     ![w].took = now - wl[w].start]
    /\ UNCHANGED <<env, now, mainVars, cycleVars, aggVars, lock, metricVars, obs>>

\* time.sleep returns once the requested time has passed
WWake(w) ==
    /\ wpc[w] = "sleeping"
    /\ now * interval[2] >= wl[w].wake
    /\ wl' = [wl EXCEPT ![w].wake = 0]
    /\ WorkerStep(w, "check")
    /\ UNCHANGED <<env, now, mainVars, cycleVars, aggVars, lock, metricVars, obs>>

\* ----------------------------------------------------------------- clock
Tick ==
    /\ mpc \in {"rl_threads", "rl_start", "rl_join"}
    /\ now < stop_at + MaxOverrun
    /\ now' = now + 1
    /\ UNCHANGED <<env, mainVars, cycleVars, aggVars, lock, wpc, wl, metricVars, obs>>

\* The clock under prompt scheduling: time passes only while the controller
\* waits in join and every live worker is inside an RPC call or in a sleep
\* that has not yet run out; every other statement takes no time.
TickPrompt ==
    /\ mpc = "rl_join"
    /\ now < stop_at + MaxOverrun
    /\ \E w \in Workers : wpc[w] \notin {"none", "done"}
    /\ \A w \in Workers :
          \/ wpc[w] \in {"none", "done", "gas_price", "send", "wait"}
          \/ wpc[w] = "sleeping" /\ now * interval[2] < wl[w].wake
    /\ now' = now + 1
    /\ UNCHANGED <<env, mainVars, cycleVars, aggVars, lock, wpc, wl, metricVars, obs>>

\* ------------------------------------------------------------------ spec
WorkerNext(w) ==
    \/ WCheck(w) \/ WGasPrice(w) \/ WSend(w) \/ WWaitRaise(w) \/ WWaitReceipt(w)
    \/ WAcquire(w)
    \/ WSentLoad(w) \/ WSentStore(w) \/ WFailedLoad(w) \/ WFailedStore(w)
    \/ WGasLoad(w) \/ WGasStore(w) \/ WAppend(w)
    \/ WExcLoad(w) \/ WExcStore(w) \/ WExcInc(w)
    \/ WPace(w) \/ WWake(w)

MainNext ==
    \/ MainConstruct \/ MainIsConnected \/ MainChainId \/ MainBlockNumber
    \/ MainStartServer \/ MainStartRefresher \/ MainGetBalance
    \/ MainReadConfig \/ MainAccounts \/ MainNoAccounts \/ MainCooldown \/ MainBackoff

RunLoadNext ==
    \/ RunLoadEnter \/ RunLoadCreateThreads \/ RunLoadStartThread
    \/ RunLoadJoin \/ RunLoadPublish

Next ==
    \/ SetEnv
    \/ MainNext
    \/ RunLoadNext
    \/ \E w \in Workers : WorkerNext(w)
    \/ Tick

Spec == Init /\ [][Next]_vars

NextDirect ==
    \/ DirectCall
    \/ RunLoadNext
    \/ \E w \in Workers : WorkerNext(w)
    \/ Tick

SpecDirect == InitDirect /\ [][NextDirect]_vars

\* both entry points
InitAll == Init \/ InitDirect

NextAll == Next \/ DirectCall

SpecAll == InitAll /\ [][NextAll]_vars

\* main, with METRICS_PORT changing between a failure and the restart
NextPorts == Next \/ SetMetricsPort

SpecPorts == Init /\ [][NextPorts]_vars

\* a direct call under prompt scheduling: every thread that can run does run,
\* every RPC call returns or raises (the receipt wait at the latest when its
\* timeout expires), and time passes
NextTimed ==
    \/ DirectCall
    \/ RunLoadNext
    \/ \E w \in Workers : WorkerNext(w)
    \/ TickPrompt

SpecTimed ==
    /\ InitDirect
    /\ [][NextTimed]_vars
    /\ WF_vars(DirectCall)
    /\ WF_vars(RunLoadNext)
    /\ \A w \in Workers : WF_vars(WorkerNext(w))
    /\ WF_vars(TickPrompt)

\* one run of main up to its first top-level failure, with the environment
\* changing at any moment of an iteration
NextEnv ==
    \/ SetEnv
    \/ SetEnvInCycle
    \/ MainConstruct \/ MainIsConnected \/ MainChainId \/ MainBlockNumber
    \/ MainStartServer \/ MainStartRefresher \/ MainGetBalance
    \/ MainReadConfig \/ MainAccounts \/ MainNoAccounts \/ MainCooldown
    \/ RunLoadNext
    \/ \E w \in Workers : WorkerNext(w)
    \/ Tick

SpecEnv == Init /\ [][NextEnv]_vars

\* ================================================================ claims
\* all workers have been joined and the window metrics are about to be computed
AtCycleEnd == mpc = "rl_publish"

RunStates == {"rl_threads", "rl_start", "rl_join", "rl_publish"}

CriticalSection == {"sent_load", "sent_store", "failed_load", "failed_store",
                    "gas_load", "gas_store", "append", "exc_load", "exc_store"}

ExceptPath == {"exc_lock", "exc_load", "exc_store", "exc_inc"}

\* C1: at the end of a cycle total_sent + total_failed equals the number of
\* attempts the workers performed: each attempt is counted once, in one counter.
C1_AttemptsCountedOnce ==
    AtCycleEnd => total_sent + total_failed = obs.attempts

\* C2: the counters and the latency list are updated only by the thread that
\* holds the lock; whenever the lock is free len(latencies) = total_sent; at
\* cycle end total_sent is the number of receipts obtained and total_gas_used
\* the sum of their gasUsed.
C2_NoLostOrPartialUpdates ==
    /\ \A w \in Workers : wpc[w] \in CriticalSection => lock = w
    /\ lock = NoThread => Len(latencies) = total_sent
    /\ AtCycleEnd => /\ total_sent = obs.receipts
                     /\ total_gas_used = obs.gas

\* two workers each obtained a receipt, one with gasUsed and one without
C2_Witness ==
    /\ AtCycleEnd
    /\ obs.threads = 2
    /\ total_sent = 2
    /\ total_gas_used = GasLimit

\* C3: the failure_rate a cycle publishes is (attempts that raised + attempts
\* whose receipt has a failing status) / (attempts performed), 0 with no attempt.
C3_FailureRateIsFailedOverAttempts ==
    [][(mpc = "rl_publish" /\ mpc' # "rl_publish") =>
          IF obs.attempts = 0
          THEN gauges'.failure_rate[1] = 0
          ELSE gauges'.failure_rate[1] * obs.attempts
                  = (obs.raised + obs.bad) * gauges'.failure_rate[2]]_vars

\* C4: every failure_rate a cycle publishes lies in [0, 1], and is 0 when the
\* cycle recorded no attempt.
C4_FailureRateInUnitInterval ==
    [][(mpc = "rl_publish" /\ mpc' # "rl_publish") =>
          /\ gauges'.failure_rate[2] > 0
          /\ 0 <= gauges'.failure_rate[1]
          /\ gauges'.failure_rate[1] <= gauges'.failure_rate[2]
          /\ (total_sent + total_failed = 0 => gauges'.failure_rate[1] = 0)]_vars

\* a cycle published a failure rate of exactly 1
C4_Witness ==
    /\ mpc = "returned"
    /\ gauges.failure_rate[1] > 0
    /\ gauges.failure_rate[1] = gauges.failure_rate[2]

\* C5: while the configuration of the iteration (or the arguments of the call)
\* has target_tps <= 0 or concurrency <= 0, no cycle runs, no worker thread
\* exists, no transaction RPC call is made, and the window gauges, the latency
\* histogram and the RPC-error counter keep their values.
C5_IdlePolicy ==
    [][(cfg'.target_tps <= 0 \/ cfg'.concurrency <= 0) =>
          /\ UNCHANGED <<gauges, hist, rpcErrors>>
          /\ mpc' \notin RunStates
          /\ \A w \in Workers : wpc'[w] = "none"
          /\ obs'.threads = 0
          /\ obs'.rpc = 0]_vars

\* an idle supervisor iteration that follows a cycle with published metrics
C5_Witness ==
    /\ entry = "main"
    /\ mpc = "cooldown"
    /\ iters = 2
    /\ cfg.target_tps <= 0 \/ cfg.concurrency <= 0
    /\ gauges.tps[1] > 0
    /\ hist.count > 0

\* C6: the window gauges change only in the publishing step of a cycle, which
\* is taken after every worker of the cycle has terminated, from an aggregate
\* that holds exactly the attempts observed since this cycle started.
C6_PublishAfterJoinFromOwnCycle ==
    [][/\ gauges' # gauges => mpc = "rl_publish"
       /\ mpc = "rl_publish" =>
             /\ \A w \in Workers : wpc[w] \in {"none", "done"}
             /\ total_sent = obs.receipts
             /\ total_failed = obs.raised + obs.bad
             /\ total_gas_used = obs.gas
             /\ Len(latencies) = obs.receipts
             /\ SumSeq(latencies) = obs.latsum]_vars

\* the second cycle of a supervisor run is about to publish, after a first
\* cycle that published a non-zero throughput
C6_Witness ==
    /\ entry = "main"
    /\ AtCycleEnd
    /\ iters = 2
    /\ gauges.tps[1] > 0
    /\ obs.attempts > 0

\* C7: an RPC call of an attempt that raises lands in the except clause; the
\* worker then adds exactly 1 to total_failed and exactly 1 to the RPC-error
\* counter, leaves total_sent, total_gas_used, the latency list and the
\* histogram alone, and goes on to pace; the main thread is not affected, and
\* at cycle end the RPC-error counter equals the number of raised attempts.
C7_ExceptionCountedOnce ==
    [][/\ \A w \in Workers :
             /\ (/\ wpc[w] \in {"gas_price", "send", "wait"}
                 /\ wpc'[w] # wpc[w]
                 /\ obs'.raised = obs.raised + 1) => wpc'[w] = "exc_lock"
             /\ (wpc[w] \in ExceptPath /\ wpc'[w] # wpc[w]) =>
                   /\ total_failed' = total_failed + (IF wpc[w] = "exc_store" THEN 1 ELSE 0)
                   /\ rpcErrors' = rpcErrors + (IF wpc[w] = "exc_inc" THEN 1 ELSE 0)
                   /\ UNCHANGED <<total_sent, total_gas_used, latencies, hist, mpc>>
                   /\ wpc'[w] = CASE wpc[w] = "exc_lock" -> "exc_load"
                                  [] wpc[w] = "exc_load" -> "exc_store"
                                  [] wpc[w] = "exc_store" -> "exc_inc"
                                  [] OTHER -> "pace"
       /\ mpc' = "rl_publish" => rpcErrors' = obs'.raised]_vars

\* a worker whose first attempt raised has started its second attempt
C7_Witness ==
    /\ obs.threads = 1
    /\ obs.attempts = 2
    /\ obs.raised = 1
    /\ total_failed = 1
    /\ rpcErrors = 1
    /\ wpc[0] = "gas_price"

\* C8: at cycle end every receipt with a status other than success has added 1
\* to total_failed, its latency to the histogram and to the latency list and
\* its gasUsed to total_gas_used, and nothing to the RPC-error counter.
C8_FailedReceiptRecorded ==
    AtCycleEnd =>
        /\ total_failed = obs.bad + obs.raised
        /\ hist.count = obs.receipts
        /\ hist.sum = obs.latsum
        /\ Len(latencies) = obs.receipts
        /\ SumSeq(latencies) = obs.latsum
        /\ total_gas_used = obs.gas
        /\ rpcErrors = obs.raised

\* the only attempt of a cycle obtained a failing receipt that used gas, after
\* the clock advanced
C8_Witness ==
    /\ AtCycleEnd
    /\ obs.attempts = 1
    /\ obs.bad = 1
    /\ obs.raised = 0
    /\ obs.gas = GasLimit
    /\ obs.latsum > 0

\* C9: a worker starts an attempt only when the clock it reads at the top of
\* the iteration is strictly before stop_at; a cycle whose deadline has passed
\* when its threads are started ends with no attempt, total_sent = 0 and
\* total_failed = 0.
C9_NoAttemptAtOrAfterDeadline ==
    [][/\ \A w \in Workers :
             (wpc[w] = "check" /\ wpc'[w] = "gas_price") => now < stop_at
       /\ (mpc' = "rl_publish" /\ stop_at' <= start_time') =>
             /\ obs'.attempts = 0
             /\ total_sent' = 0
             /\ total_failed' = 0]_vars

\* a cycle of two workers and a positive duration whose deadline passed
\* before the threads were started
C9_Witness ==
    /\ AtCycleEnd
    /\ obs.threads = 2
    /\ cfg.duration_seconds > 0
    /\ stop_at <= start_time

\* C10: after a backoff, main re-executes the whole startup sequence: the
\* metrics server start is followed by the refresher start (and then the
\* balance query and the supervisor loop).
C10_RestartReexecutesStartup ==
    [][(restarts > 0 /\ mpc = "start_server") => mpc' = "start_refresher"]_vars

\* C11: main returns only in the first startup, when the client construction
\* or the connectivity check fails; once that startup has passed both, no
\* later failure (and no restart round) makes main return.
C11_ReturnsOnlyFromInitialStartup ==
    mpc = "exit" => restarts = 0

\* C12: a failure of an auxiliary operation, whatever it raises, is ignored:
\* after the balance query main reads the configuration at the top of the
\* supervisor loop, and never takes the backoff-and-restart path.
C12_AuxiliaryFailureIgnored ==
    [][(mpc = "get_balance" /\ mpc' # mpc) => mpc' = "read_cfg"]_vars

\* C13: target_tps, concurrency and duration_seconds change only in the read
\* at the top of an iteration, which takes them from the environment (one read
\* per iteration, no restart) and decides between the cycle and the idle skip;
\* the cycle takes its deadline, interval and thread count from those values,
\* and keeps them until it returns, whatever the environment holds meanwhile.
C13_ConfigReadOncePerIteration ==
    [][/\ cfg' # cfg => mpc = "read_cfg"
       /\ (mpc = "read_cfg" /\ mpc' # mpc) =>
             /\ cfg'.target_tps = env.TARGET_TPS
             /\ cfg'.concurrency = env.CONCURRENCY
             /\ cfg'.duration_seconds = env.DURATION_SECONDS
             /\ iters' = iters + 1
             /\ restarts' = restarts
             /\ mpc' = IF env.TARGET_TPS > 0 /\ env.CONCURRENCY > 0
                       THEN "accounts" ELSE "cooldown"
       /\ (mpc = "rl_enter" /\ mpc' = "rl_threads") =>
             /\ stop_at' = now + cfg.duration_seconds
             /\ interval'[1] * cfg.target_tps = cfg.concurrency * interval'[2]
       /\ (mpc = "rl_threads" /\ mpc' # mpc) => obs'.threads = cfg.concurrency
       /\ (mpc \in {"rl_threads", "rl_start", "rl_join"} /\ mpc' # "backoff") =>
             UNCHANGED <<interval, stop_at>>]_vars

\* the cycle of the second iteration has made an attempt while the environment
\* already holds an idle configuration and another duration
C13_Witness ==
    /\ mpc = "rl_join"
    /\ iters = 2
    /\ cfg.target_tps = 1
    /\ env.TARGET_TPS = 0
    /\ env.DURATION_SECONDS # cfg.duration_seconds
    /\ obs.attempts > 0

\* C14: main is at the empty-account-list branch only from the accounts query
\* of a qualifying configuration; there no worker thread exists and no cycle
\* has been entered; the branch sleeps 10 units and returns to the
\* configuration read, leaving the metrics, the restart depth and the exit code
\* alone.
C14_EmptyAccountsSkipsCycle ==
    [][/\ (mpc' = "no_accounts" /\ mpc # "no_accounts") =>
             /\ mpc = "accounts"
             /\ cfg.target_tps > 0 /\ cfg.concurrency > 0
             /\ UNCHANGED <<now, gauges, hist, rpcErrors, restarts, exitCode, wpc, obs>>
       /\ mpc = "no_accounts" =>
             /\ \A w \in Workers : wpc[w] = "none"
             /\ obs.threads = 0 /\ obs.rpc = 0
       /\ (mpc = "no_accounts" /\ mpc' # mpc) =>
             /\ mpc' = "read_cfg"
             /\ now' = now + 10
             /\ UNCHANGED <<gauges, hist, rpcErrors, restarts, exitCode, iters, wpc, obs>>]_vars

\* the first iteration found no account and main is back at the configuration
\* read, 10 units after it started
C14_Witness ==
    /\ mpc = "read_cfg"
    /\ iters = 1
    /\ restarts = 0
    /\ cfg.target_tps > 0 /\ cfg.concurrency > 0
    /\ now = 10
    /\ gauges = ZeroGauges

\* C15: inside the supervisor loop every step that brings main back to the
\* configuration read is a sleep of at least 5 units, and the clock never goes
\* back; a cycle that has published and an idle skip both go to the cooldown,
\* which sleeps exactly 5 units before the next read.
C15_PauseBetweenConfigReads ==
    [][/\ now' >= now
       /\ (mpc' = "read_cfg" /\ mpc \notin {"read_cfg", "get_balance"}) =>
             now' >= now + 5
       /\ (mpc = "rl_publish" /\ mpc' # mpc) => mpc' = "cooldown"
       /\ (mpc = "read_cfg" /\ mpc' # mpc
             /\ (cfg'.target_tps <= 0 \/ cfg'.concurrency <= 0)) => mpc' = "cooldown"
       /\ (mpc = "cooldown" /\ mpc' # mpc) =>
             /\ mpc' = "read_cfg"
             /\ now' = now + 5]_vars

\* main is back at the configuration read after a cycle that published a
\* throughput and the cooldown that followed it
C15_Witness ==
    /\ mpc = "read_cfg"
    /\ iters = 1
    /\ gauges.tps[1] > 0
    /\ now >= 5

\* C16: the gauges a cycle publishes are, for elapsed = end_time - start_time
\* and total = total_sent + total_failed of the final aggregate: tps = total /
\* elapsed, rps = 3 * total / elapsed, mgas = total_gas_used / 10^6 / elapsed
\* (all three 0 when elapsed <= 0), avg_latency = mean of the latency list (0
\* when it is empty).  On the aggregate sent = 2, failed = 1, gas 42000,
\* elapsed 1 and latencies 1 and 2 (in half units) the derivation gives 3, 9,
\* 0.042 and 3/2.
C16_PublishedValuesFollowDerivation ==
    [][(mpc = "rl_publish" /\ mpc' # mpc) =>
          LET elapsed == now - start_time
              total == total_sent + total_failed
              g == gauges'
          IN  /\ g.tps[2] > 0 /\ g.rps[2] > 0 /\ g.mgas[2] > 0 /\ g.avg_latency[2] > 0
              /\ IF elapsed > 0
                 THEN /\ g.tps[1] * elapsed = total * g.tps[2]
                      /\ g.rps[1] * elapsed = 3 * total * g.rps[2]
                      /\ g.mgas[2] % 1000000 = 0
                      /\ g.mgas[1] * elapsed = total_gas_used * (g.mgas[2] \div 1000000)
                 ELSE g.tps[1] = 0 /\ g.rps[1] = 0 /\ g.mgas[1] = 0
              /\ IF Len(latencies) > 0
                 THEN g.avg_latency[1] * Len(latencies)
                         = SumSeq(latencies) * g.avg_latency[2]
                 ELSE g.avg_latency[1] = 0
              /\ Tps(2 + 1, 1) = <<3, 1>>
              /\ Rps(2 + 1, 1) = <<9, 1>>
              /\ MgasPerSec(2 * 21000, 1) = <<42000, 1000000>>
              /\ AvgLatency(<<1, 2>>) = <<3, 2>>]_vars

\* a cycle of two attempts, one with a receipt of 21000 gas after 1 unit and
\* one that raised, has published after an elapsed time of 1 unit
C16_Witness ==
    /\ mpc = "returned"
    /\ gauges.tps = <<2, 1>>
    /\ gauges.rps = <<6, 1>>
    /\ gauges.mgas = <<21000, 1000000>>
    /\ gauges.avg_latency = <<1, 1>>
    /\ hist.count = 1
    /\ rpcErrors = 1

\* C17: for target_tps > 0 and concurrency > 0 the interval of a cycle is
\* concurrency / target_tps, a positive value; an attempt that took e is
\* followed by a sleep of interval - e when e < interval and by the next
\* iteration at once when e >= interval; a sleep does not end early; two
\* successive attempts of a thread start at least one interval apart.
C17_AttemptsPacedByInterval ==
    [][/\ (mpc = "rl_enter" /\ mpc' = "rl_threads") =>
             /\ interval'[1] > 0 /\ interval'[2] > 0
             /\ interval'[1] * cfg.target_tps = cfg.concurrency * interval'[2]
       /\ \A w \in Workers :
             /\ (wpc[w] = "check" /\ wpc'[w] = "gas_price" /\ wl[w].last # NoField) =>
                   (now - wl[w].last) * interval[2] >= interval[1]
             /\ (wpc[w] = "pace" /\ wpc'[w] # wpc[w]) =>
                   LET e == now - wl[w].start
                   IN  IF e * interval[2] < interval[1]
                       THEN /\ wpc'[w] = "sleeping"
                            /\ wl'[w].wake = (now - e) * interval[2] + interval[1]
                       ELSE wpc'[w] = "check"
             /\ (wpc[w] = "sleeping" /\ wpc'[w] = "check") =>
                   now * interval[2] >= wl[w].wake]_vars

\* with an interval of half a unit, the second attempt of a thread has
\* started one unit after the first
C17_Witness ==
    /\ interval = <<1, 2>>
    /\ obs.threads = 1
    /\ obs.attempts = 2
    /\ wpc[0] = "gas_price"
    /\ wl[0].last = 0
    /\ wl[0].start = 1

\* C18: a cycle whose threads are created publishes and returns, and every
\* worker that reaches the top of its loop terminates; a worker exits only
\* when the deadline has passed, its last attempt started before the deadline,
\* and it exits no later than the deadline plus the larger of the time that
\* attempt took and the interval.
C18_CycleTerminates ==
    /\ (mpc = "rl_threads") ~> (mpc = "returned")
    /\ \A w \in Workers : (wpc[w] = "check") ~> (wpc[w] = "done")
    /\ [][\A w \in Workers :
             (wpc[w] = "check" /\ wpc'[w] = "done") =>
                /\ now >= stop_at
                /\ wl[w].last # NoField =>
                      /\ wl[w].last < stop_at
                      /\ \/ (now - stop_at) * interval[2] <= interval[1]
                         \/ now - stop_at <= wl[w].took]_vars

\* all workers of a cycle have exited after the deadline, the last attempt
\* having run past it
C18_Witness ==
    /\ mpc = "rl_publish"
    /\ obs.attempts > 0
    /\ now > stop_at
    /\ hist.sum > 0

\* C19: a worker thread is alive only while the controller is between the
\* creation of the threads of a cycle and its join: when a cycle creates its
\* threads, when main sleeps, reads the configuration, is idle or restarts,
\* no worker of any earlier cycle is alive, and the lock is not held.
C19_OneCycleAtATime ==
    /\ mpc \notin {"rl_start", "rl_join", "rl_publish"} =>
          /\ \A w \in Workers : wpc[w] = "none"
          /\ lock = NoThread
    /\ mpc = "rl_start" =>
          \A w \in Workers : w >= started => wpc[w] \in {"created", "none"}
    /\ mpc = "rl_publish" => \A w \in Workers : wpc[w] \in {"none", "done"}

\* the threads of the second cycle of a supervisor run are created and not yet
\* started, after a first cycle whose workers made attempts
C19_Witness ==
    /\ entry = "main"
    /\ iters = 2
    /\ mpc = "rl_start"
    /\ started = 0
    /\ wpc[0] = "created"
    /\ gauges.tps[1] > 0

\* C20: over any number of restart rounds at most one metrics server has been
\* started and at most one head-block refresher thread is alive.
C20_BackgroundResourcesSetUpOnce ==
    /\ Cardinality(boundPorts) <= 1
    /\ refreshers <= 1

====
